---------------------------- MODULE Spec2Model ----------------------------
(***************************************************************************)
(* A model of the flatend Node (src/deno/src/node.ts): connection          *)
(* lifecycle (connect / listen / read loop / Handshake dispatch),          *)
(* disconnect cleanup, the reconnect policy, shutdown, and the bootstrap   *)
(* lookup.                                                                 *)
(*                                                                         *)
(* The transport is the Node.js "net" socket the file is written against:  *)
(* a socket emits 'connect' (or 'error' while dialling), 'end' when the    *)
(* peer's FIN is read, and 'close' once both directions are finished.      *)
(* Every `await` and every setImmediate / setTimeout callback of the code  *)
(* is a separate step of the model; the code between two such points runs  *)
(* atomically, as it does on the single-threaded event loop.               *)
(***************************************************************************)
EXTENDS Integers, Sequences, FiniteSets, TLC

(***************************************************************************)
(* Bounds of the model.                                                    *)
(***************************************************************************)
MaxConns == 2        \* socket objects alive at the same time
MaxServers == 1      \* listeners ever created
MaxRounds == 3       \* bootstrap rounds and queries per peer counted up to here
MaxQueue == 3        \* length of a bootstrap frontier explored
MaxFrames == 3       \* frames received on the connection that is read frame by frame
MaxStreams == 2      \* stream ids a peer uses
MaxProviders == 3    \* Providers that register services for push / providersFor

(***************************************************************************)
(* Program constants.                                                      *)
(***************************************************************************)
ReconnectBudget == 8 \* let count = 8

Slots == 1..MaxConns
ServerIds == 1..MaxServers
Addrs == {"a1"}
Keys == {"k1"}                 \* public keys peers present as identities
SignerKeys == Keys \cup {"kx"}  \* keys a packet may be signed with
ServiceNames == {"x"}
BootKeys == {"p1", "p2", "p3"} \* public keys of the peers bootstrap() can learn
NoId == "noid"
NoSig == [signer |-> "nobody", payload |-> <<>>]

(***************************************************************************)
(* Ed25519 detached signatures, modelled by what they bind: the signing    *)
(* key and the signed payload.  verify succeeds exactly when both match.   *)
(***************************************************************************)
HandshakePayload(id, svcs) == <<id, svcs>>

Sign(key, payload) == [signer |-> key, payload |-> payload]

\* verify that does not bind the signature to the public key.
VerifyPayloadOnly(payload, signature, publicKey) ==
    /\ signature # NoSig
    /\ signature.payload = payload

Verify(payload, signature, publicKey) ==
    /\ signature # NoSig
    /\ signature.signer = publicKey
    /\ signature.payload = payload

\* The Handshake packets a peer can send.  A peer that presents an identity
\* advertises any service list; it signs with its own key, with another
\* key, over another payload, or not at all.  An anonymous peer (no
\* identity) advertises a service and may attach a signature all the same.
SignaturesFor(id, svcs) ==
    IF id = NoId THEN {NoSig, Sign("kx", HandshakePayload(id, svcs))}
    ELSE {NoSig} \cup {Sign(k, HandshakePayload(id, svcs)) : k \in SignerKeys}
                 \cup {Sign(id, HandshakePayload(id, ServiceNames \ svcs))}

ServiceLists(id) == IF id = NoId THEN {ServiceNames} ELSE SUBSET ServiceNames

HandshakePackets ==
    UNION {UNION {{[id |-> i, services |-> s, signature |-> g] :
                     g \in SignaturesFor(i, s)} :
                  s \in ServiceLists(i)} :
           i \in Keys \cup {NoId}}

\* History: the packet's signature was made with the key of the identity it
\* names, over the payload the packet carries.
Genuine(pkt) ==
    /\ pkt.signature # NoSig
    /\ pkt.signature.signer = pkt.id
    /\ pkt.signature.payload = <<pkt.id, pkt.services>>

\* packet.id && packet.signature, then nacl.sign.detached.verify(...)
SignatureChecked(pkt) == pkt.id # NoId /\ pkt.signature # NoSig

\* The result of verify is not looked at.
SignatureOkIgnored(pkt) == TRUE

SignatureOk(pkt) ==
    Verify(HandshakePayload(pkt.id, pkt.services), pkt.signature, pkt.id)

VARIABLES
    sk,         \* slot -> the socket, its Provider and the tasks attached to it
    conns,      \* Node.conns
    clients,    \* Node.clients: address key -> slot of the Provider
    servers,    \* Node.servers
    srv,        \* server id -> listener state
    services,   \* Node.services: service name -> providers in insertion order
    table,      \* Node.table: the public keys held by the routing table
    shutdown,   \* Node._shutdown
    sdPc,       \* position of the shutdown() call
    sdWait,     \* the 'close' promises shutdown() awaits
    bPc,        \* bootstrap(): position
    visited,    \* bootstrap(): visited
    queue,      \* bootstrap(): queue
    next,       \* bootstrap(): next
    pending,    \* bootstrap(): queue index -> position of that peer's query
    closest,    \* bootstrap(): number of discovered peers pushed to closest
    rounds,     \* bootstrap(): rounds started
    queried,    \* history: FindNodeRequests sent per public key in this run
    peer,       \* a second Node that this one dials, and the wire between them
    rd,         \* one accepted connection seen frame by frame: its read loop,
                \* its streams and the handlers started for it
    qry           \* the Providers behind the registry, and the last call of
                \* push() or providersFor() with what it returned

nodeVars == <<sk, conns, clients, servers, srv, services, table, shutdown,
              sdPc, sdWait>>
bootVars == <<bPc, visited, queue, next, pending, closest, rounds, queried>>
vars == <<sk, conns, clients, servers, srv, services, table, shutdown,
          sdPc, sdWait,
          bPc, visited, queue, next, pending, closest, rounds, queried, peer, rd, qry>>

\* A cleanup closure: its position and the packet.services it captured.
NoCleanup == [st |-> "none", svcs |-> {}]

UnusedSlot ==
    [sock |-> "unused",     \* unused | connecting | open | closed
     dir |-> "none",        \* out (dialled) | in (accepted)
     addr |-> "none",       \* opts of connect()
     server |-> 0,          \* the listener that accepted it
     caller |-> 0,          \* who awaits this connect(): 0 the user, or the
                            \* slot whose reconnect closure called it
     pc |-> "none",         \* position of connect() / of the accept callback
     localEnd |-> FALSE,    \* sock.end() was called
     ended |-> FALSE,       \* 'end' was emitted
     awaited |-> FALSE,     \* shutdown() holds events.once(conn, "close")
     provider |-> FALSE,    \* new Provider(...) was constructed
     handshaked |-> FALSE,  \* provider.handshaked
     id |-> NoId,           \* provider.id
     idVerified |-> FALSE,  \* history: provider.id came in a packet whose
                            \* signature was genuine
     psvcs |-> {},          \* provider.services
     readPc |-> "none",     \* this.read(provider)
     replies |-> 0,         \* Handshake replies written
     dialCleanup |-> NoCleanup,   \* cleanup installed by connect()
     acceptCleanup |-> NoCleanup, \* cleanup installed by _handle()
     rcPc |-> "none",       \* the reconnect closure of connect()
     count |-> 0,           \* its count
     attempts |-> 0]        \* history: connect() calls made by reconnect

UnusedServer == [st |-> "unused"]

-----------------------------------------------------------------------------
(***************************************************************************)
(* kademlia Table, held as the set of public keys it contains.             *)
(***************************************************************************)
TableUpdate(t, key) == t \cup {key}

TableDelete(t, key) == t \ {key}

\* Public keys as the numbers whose XOR is the distance between two keys.
KeyNum(k) ==
    CASE k = "p1" -> 1 [] k = "p2" -> 2 [] k = "p3" -> 3 [] k = "k1" -> 4
      [] OTHER -> 7

Xor(a, b) ==
    LET Bit(n, i) == (n \div (2 ^ i)) % 2
    IN ((Bit(a, 0) + Bit(b, 0)) % 2)
       + 2 * ((Bit(a, 1) + Bit(b, 1)) % 2)
       + 4 * ((Bit(a, 2) + Bit(b, 2)) % 2)

Distance(k, target) == Xor(KeyNum(k), KeyNum(target))

\* this.table.cap
TableCap == 2

RECURSIVE SortedByDistance(_, _)
SortedByDistance(S, target) ==
    IF S = {} THEN <<>>
    ELSE LET m == CHOOSE x \in S :
                     \A y \in S : Distance(x, target) <= Distance(y, target)
         IN <<m>> \o SortedByDistance(S \ {m}, target)

\* closestTo(target, k): at most k entries, nearest to the target first.
ClosestToTarget(t, target, k) ==
    SubSeq(SortedByDistance(t, target), 1,
           IF Cardinality(t) < k THEN Cardinality(t) ELSE k)

(***************************************************************************)
(* The service registry: Map<string, Set<Provider>>.  A JavaScript Set     *)
(* iterates in insertion order, so each entry is a duplicate-free sequence.*)
(***************************************************************************)
SeqToSet(s) == {s[i] : i \in DOMAIN s}

SeqRemove(s, x) == SelectSeq(s, LAMBDA y : y # x)

\* providers = this.services.get(service) ?? new Set; providers.add(provider)
RegistryAddOne(reg, s, p) ==
    IF s \in DOMAIN reg
    THEN IF p \in SeqToSet(reg[s]) THEN reg
         ELSE [reg EXCEPT ![s] = Append(@, p)]
    ELSE reg @@ (s :> <<p>>)

\* providers.delete(provider) that leaves an emptied entry in the map.
RegistryRemoveOneKeepEmpty(reg, s, p) ==
    IF s \notin DOMAIN reg THEN reg
    ELSE [reg EXCEPT ![s] = SeqRemove(@, p)]

\* providers.delete(provider); if (providers.size === 0) services.delete
RegistryRemoveOne(reg, s, p) ==
    IF s \notin DOMAIN reg THEN reg
    ELSE IF SeqRemove(reg[s], p) = <<>>
         THEN [t \in DOMAIN reg \ {s} |-> reg[t]]
         ELSE [reg EXCEPT ![s] = SeqRemove(@, p)]

\* for (const service of packet.services) { .. add .. }
RECURSIVE RegistryAdd(_, _, _)
RegistryAdd(reg, p, svcs) ==
    IF svcs = {} THEN reg
    ELSE LET s == CHOOSE x \in svcs : TRUE
         IN RegistryAdd(RegistryAddOne(reg, s, p), p, svcs \ {s})

\* for (const service of provider.services) { .. delete .. }
RECURSIVE RegistryRemove(_, _, _)
RegistryRemove(reg, p, svcs) ==
    IF svcs = {} THEN reg
    ELSE LET s == CHOOSE x \in svcs : TRUE
         IN RegistryRemove(RegistryRemoveOne(reg, s, p), p, svcs \ {s})

EmptyRegistry == [s \in {} |-> <<>>]

\* Node._providers(services): the entries of each requested service, in
\* request order, concatenated.
RECURSIVE Providers(_, _)
Providers(reg, req) ==
    IF req = <<>> THEN <<>>
    ELSE (IF Head(req) \in DOMAIN reg THEN reg[Head(req)] ELSE <<>>)
         \o Providers(reg, Tail(req))

-----------------------------------------------------------------------------
(***************************************************************************)
(* Socket objects.  A slot whose socket is closed and which nothing refers *)
(* to any more (no collection, no pending callback, no awaiting caller) is *)
(* garbage and may hold the next socket.                                   *)
(***************************************************************************)
ConnectPending(r) == r.pc \in {"awaitConnect", "keyExchange", "awaitResponse"}

InRegistry(reg, p) == \E s \in DOMAIN reg : p \in SeqToSet(reg[s])

\* Slot c of the sockets f is garbage, given the node's collections.
Garbage(f, c, cn, cl, reg, w) ==
    /\ f[c].sock = "closed"
    /\ ~ConnectPending(f[c])
    /\ f[c].dialCleanup.st # "scheduled"
    /\ f[c].acceptCleanup.st # "scheduled"
    /\ f[c].rcPc \notin {"timer", "attempt"}
    /\ c \notin cn
    /\ c \notin w.conns
    /\ \A a \in DOMAIN cl : cl[a] # c
    /\ ~InRegistry(reg, c)

\* The Provider of a closed socket that neither clients nor the registry
\* refers to is garbage too, while the reconnect closure of its connect()
\* call (opts, count) may still be alive.
ProviderGarbage(f, c, cl, reg) ==
    /\ f[c].sock = "closed"
    /\ f[c].dialCleanup.st # "scheduled"
    /\ f[c].acceptCleanup.st # "scheduled"
    /\ \A a \in DOMAIN cl : cl[a] # c
    /\ ~InRegistry(reg, c)

ClosureOnly(r) ==
    [UnusedSlot EXCEPT !.sock = r.sock, !.dir = r.dir, !.addr = r.addr,
                       !.server = r.server, !.caller = r.caller, !.pc = r.pc,
                       !.rcPc = r.rcPc, !.count = r.count,
                       !.attempts = r.attempts]

Collect(f, cn, cl, reg, w) ==
    [c \in Slots |-> IF Garbage(f, c, cn, cl, reg, w) THEN UnusedSlot
                     ELSE IF ProviderGarbage(f, c, cl, reg) THEN ClosureOnly(f[c])
                     ELSE f[c]]

\* The common case: the step changes none of the node's collections.
GC(f) == Collect(f, conns, clients, services, sdWait)

Free(c) == sk[c].sock = "unused"

NewSlot == CHOOSE c \in Slots : Free(c) /\ \A d \in Slots : Free(d) => c <= d

MapRemove(m, k) == [x \in DOMAIN m \ {k} |-> m[x]]

MapPut(m, k, v) == [x \in DOMAIN m \cup {k} |-> IF x = k THEN v ELSE m[x]]

\* The reconnect closure is finished: "done" (it reconnected, or the node is
\* shut down) or "gaveUp" (the budget is spent, attempts keeps the count).
ChainOver(r, how) ==
    [r EXCEPT !.rcPc = how, !.count = 0,
              !.attempts = IF how = "gaveUp" THEN @ ELSE 0]

\* The promise of connect() settles: the user's await, or the try/catch of
\* the reconnect closure that called it (catch: setTimeout(reconnect, 500)).
Settle(f, c, ok) ==
    IF f[c].caller = 0 THEN f
    ELSE IF ok THEN [f EXCEPT ![f[c].caller] = ChainOver(@, "done")]
    ELSE [f EXCEPT ![f[c].caller].rcPc = "timer"]

-----------------------------------------------------------------------------
(***************************************************************************)
(* Node.connect                                                            *)
(***************************************************************************)
\* if (this._shutdown) throw new Error("Node is shut down."): the call ends
\* at its first statement and has touched nothing.
ThrowShutDown ==
    UNCHANGED <<sk, conns, clients, servers, srv, services, table, shutdown,
                sdPc, sdWait>>

CanConnect(a) == a \in DOMAIN clients \/ \E c \in Slots : Free(c)

\* connect(opts) past its shutdown check, called by `o` on the sockets f:
\* an entry of clients is returned at once; otherwise net.connect(opts).
ConnectBody(f, a, o) ==
    IF a \in DOMAIN clients
    THEN IF o = 0 THEN f ELSE [f EXCEPT ![o] = ChainOver(@, "done")]
    ELSE LET g == IF o = 0 THEN f ELSE [f EXCEPT ![o].rcPc = "attempt"]
         IN [g EXCEPT ![NewSlot] =
                [UnusedSlot EXCEPT !.sock = "connecting", !.dir = "out",
                                   !.addr = a, !.caller = o,
                                   !.pc = "awaitConnect"]]

ConnectCallNoCheck(a) ==
    /\ CanConnect(a)
    /\ sk' = ConnectBody(sk, a, 0)
    /\ UNCHANGED <<conns, clients, servers, srv, services, table, shutdown,
                   sdPc, sdWait>>

\* connect() without its shutdown check.
ConnectCallUnguarded(a) == ConnectCallNoCheck(a)

\* if (this._shutdown) throw new Error("Node is shut down.")
ConnectCall(a) ==
    IF shutdown THEN ThrowShutDown
    ELSE ConnectCallNoCheck(a)

\* await events.once(conn, "connect"); this.conns.add(conn);
\* setImmediate(async () => { await events.once(conn, "close"); ... }):
\* the callback runs in the check phase of the loop iteration that emitted
\* 'connect', and 'close' is emitted from a later close phase, so the close
\* listener is always in place when 'close' comes (see OnClose).
OnConnect(c) ==
    /\ sk[c].pc = "awaitConnect"
    /\ sk' = [sk EXCEPT ![c].sock = "open", ![c].pc = "keyExchange"]
    /\ conns' = conns \cup {c}
    /\ UNCHANGED <<clients, servers, srv, services, table, shutdown, sdPc,
                   sdWait>>

\* The dial fails: 'error' rejects events.once(conn, "connect") and
\* connect() throws before the socket is tracked.
DialFail(c) ==
    /\ sk[c].pc = "awaitConnect"
    /\ sk' = GC(Settle([sk EXCEPT ![c].sock = "closed", ![c].pc = "failed"], c, FALSE))
    /\ UNCHANGED <<conns, clients, servers, srv, services, table, shutdown,
                   sdPc, sdWait>>

\* clientHandshake resolves: new Provider, clients.set, setImmediate(read),
\* and the Handshake request is written (provider.request).  The socket
\* buffers what arrives before the read loop's first read, so the loop is
\* taken to run from here.
ClientKeyExchangeOk(c) ==
    /\ sk[c].dir = "out" /\ sk[c].pc = "keyExchange"
    /\ sk[c].sock = "open" /\ ~sk[c].ended
    /\ sk' = [sk EXCEPT ![c].provider = TRUE, ![c].readPc = "running",
                        ![c].pc = "awaitResponse"]
    /\ clients' = MapPut(clients, sk[c].addr, c)
    /\ UNCHANGED <<conns, servers, srv, services, table, shutdown, sdPc,
                   sdWait>>

\* clientHandshake rejects; or provider.request rejects because the
\* connection went away: catch (err) { conn.end(); throw err }
ConnectThrow(c) ==
    /\ sk[c].dir = "out"
    /\ \/ sk[c].pc = "keyExchange"
       \/ sk[c].pc = "awaitResponse" /\ sk[c].ended
    /\ sk' = GC(Settle([sk EXCEPT ![c].localEnd = TRUE, ![c].pc = "failed"], c, FALSE))
    /\ UNCHANGED <<conns, clients, servers, srv, services, table, shutdown,
                   sdPc, sdWait>>

\* The Handshake response arrives and fails verification: handshaked is
\* already set; throw, conn.end().
HandshakeResponseBad(c, pkt) ==
    /\ SignatureChecked(pkt) /\ ~SignatureOk(pkt)
    /\ sk' = GC(Settle([sk EXCEPT ![c].handshaked = TRUE, ![c].localEnd = TRUE,
                                  ![c].pc = "failed"], c, FALSE))
    /\ UNCHANGED <<services, table>>

\* The Handshake response is accepted: identity to the table, services to
\* the registry, and the two 'end' handlers are scheduled.
HandshakeResponseGood(c, pkt) ==
    /\ SignatureChecked(pkt) => SignatureOk(pkt)
    /\ table' = IF SignatureChecked(pkt) THEN TableUpdate(table, pkt.id) ELSE table
    /\ services' = RegistryAdd(services, c, pkt.services)
    /\ sk' = Collect(Settle([sk EXCEPT ![c].handshaked = TRUE,
                       ![c].id = IF SignatureChecked(pkt) THEN pkt.id ELSE @,
                       ![c].idVerified = IF SignatureChecked(pkt)
                                         THEN Genuine(pkt) ELSE @,
                       ![c].psvcs = @ \cup pkt.services,
                       ![c].dialCleanup = [st |-> "scheduled", svcs |-> pkt.services],
                       ![c].rcPc = "scheduled",
                       ![c].pc = "resolved"], c, TRUE),
                     conns, clients, services', sdWait)

HandshakeResponse(c, pkt) ==
    /\ sk[c].dir = "out" /\ sk[c].pc = "awaitResponse"
    /\ sk[c].sock = "open" /\ ~sk[c].ended /\ sk[c].readPc = "running"
    /\ \/ HandshakeResponseBad(c, pkt)
       \/ HandshakeResponseGood(c, pkt)
    /\ UNCHANGED <<conns, clients, servers, srv, shutdown, sdPc, sdWait>>

-----------------------------------------------------------------------------
(***************************************************************************)
(* setImmediate callbacks that start waiting for 'end'                     *)
(***************************************************************************)
\* connect() queues two callbacks back to back: the cleanup closure and the
\* reconnect closure.  They run in one check phase, in that order, and each
\* starts waiting in events.once(provider.sock, "end") for the NEXT 'end'.
InstallEndHandlers(c) ==
    /\ sk[c].dialCleanup.st = "scheduled"
    /\ sk' = GC([sk EXCEPT ![c].dialCleanup.st = "waiting", ![c].rcPc = "waiting"])
    /\ UNCHANGED <<conns, clients, servers, srv, services, table, shutdown,
                   sdPc, sdWait>>

\* _handle() queueing the reconnect closure of connect() as well.
InstallAcceptCleanupAndReconnect(c) ==
    /\ sk[c].acceptCleanup.st = "scheduled"
    /\ sk' = GC([sk EXCEPT ![c].acceptCleanup.st = "waiting", ![c].rcPc = "waiting"])
    /\ UNCHANGED <<conns, clients, servers, srv, services, table, shutdown,
                   sdPc, sdWait>>

\* The cleanup closure queued by _handle() on a Handshake request.
InstallAcceptCleanup(c) ==
    /\ sk[c].acceptCleanup.st = "scheduled"
    /\ sk' = GC([sk EXCEPT ![c].acceptCleanup.st = "waiting"])
    /\ UNCHANGED <<conns, clients, servers, srv, services, table, shutdown,
                   sdPc, sdWait>>

-----------------------------------------------------------------------------
(***************************************************************************)
(* Node.read / Node._handle, opcode Handshake                              *)
(***************************************************************************)
\* throw in _handle: _read rejects, read() catches and calls sock.end().
ReadLoopThrows(f, c) == [f EXCEPT ![c].readPc = "stopped", ![c].localEnd = TRUE]

\* A second Handshake that is answered like the first instead of thrown on.
HandshakeTwiceAnswered(c, pkt) ==
    /\ sk[c].handshaked
    /\ sk' = [sk EXCEPT ![c].psvcs = @ \cup pkt.services, ![c].replies = 1]
    /\ services' = RegistryAdd(services, c, pkt.services)
    /\ table' = table

\* if (provider.handshaked) throw new Error("... handshake twice.")
HandshakeTwice(c, pkt) ==
    /\ sk[c].handshaked
    /\ sk' = ReadLoopThrows(sk, c)
    /\ UNCHANGED <<services, table>>

\* provider.handshaked = true, then the signature does not verify: throw.
HandshakeRejected(c, pkt) ==
    /\ ~sk[c].handshaked
    /\ SignatureChecked(pkt) /\ ~SignatureOk(pkt)
    /\ sk' = ReadLoopThrows([sk EXCEPT ![c].handshaked = TRUE], c)
    /\ UNCHANGED <<services, table>>

\* The Handshake is accepted: identity, services, the cleanup closure is
\* scheduled and the reply is written with the request's sequence number.
HandshakeAccepted(c, pkt) ==
    /\ ~sk[c].handshaked
    /\ SignatureChecked(pkt) => SignatureOk(pkt)
    /\ sk' = [sk EXCEPT ![c].handshaked = TRUE,
                ![c].id = IF SignatureChecked(pkt) THEN pkt.id ELSE @,
                ![c].idVerified = IF SignatureChecked(pkt)
                                  THEN Genuine(pkt) ELSE @,
                ![c].psvcs = @ \cup pkt.services,
                ![c].acceptCleanup = [st |-> "scheduled", svcs |-> pkt.services],
                ![c].replies = @ + 1]
    /\ table' = IF SignatureChecked(pkt) THEN TableUpdate(table, pkt.id) ELSE table
    /\ services' = RegistryAdd(services, c, pkt.services)

\* A peer that was dialled sends its Handshake as the response to ours
\* (HandshakeResponse); a Handshake frame of its own is considered once the
\* exchange is over.
HandleHandshake(c, pkt) ==
    /\ sk[c].readPc = "running"
    /\ sk[c].dir = "out" => sk[c].pc = "resolved"
    /\ sk[c].sock = "open" /\ ~sk[c].ended
    /\ \/ HandshakeTwice(c, pkt)
       \/ HandshakeRejected(c, pkt)
       \/ HandshakeAccepted(c, pkt)
    /\ UNCHANGED <<conns, clients, servers, srv, shutdown, sdPc, sdWait>>

-----------------------------------------------------------------------------
(***************************************************************************)
(* Socket events 'end' and 'close' and the closures that wait for them     *)
(***************************************************************************)
\* The body of a cleanup closure that was waiting when 'end' is emitted.
CleanupTable(t, c, cl) ==
    IF cl.st = "waiting" /\ sk[c].id # NoId THEN TableDelete(t, sk[c].id) ELSE t

CleanupRegistry(reg, c, cl) ==
    IF cl.st = "waiting" THEN RegistryRemove(reg, c, cl.svcs) ELSE reg

Fired(cl) == IF cl.st = "waiting" THEN [cl EXCEPT !.st = "done"] ELSE cl

\* A reconnect closure that starts with one attempt too many.
ReconnectArmedGenerous(r) ==
    IF r.rcPc # "waiting" THEN r
    ELSE IF shutdown THEN ChainOver(r, "done")
    ELSE [r EXCEPT !.rcPc = "timer", !.count = ReconnectBudget + 1]

\* The reconnect closure on 'end': if (this._shutdown) return; let count = 8;
\* setTimeout(reconnect, 500)
ReconnectArmed(r) ==
    IF r.rcPc # "waiting" THEN r
    ELSE IF shutdown THEN ChainOver(r, "done")
    ELSE [r EXCEPT !.rcPc = "timer", !.count = ReconnectBudget]

\* 'end': the peer's FIN is read.  The socket (allowHalfOpen = false) ends
\* its own side, a running read loop finishes, and every closure that is
\* waiting in events.once(sock, "end") at this moment runs.
OnEnd(c) ==
    /\ sk[c].sock = "open" /\ ~sk[c].ended
    /\ sk' = [sk EXCEPT ![c] = ReconnectArmed(
                [@ EXCEPT !.ended = TRUE, !.localEnd = TRUE,
                          !.readPc = IF @ = "running" THEN "stopped" ELSE @,
                          !.dialCleanup = Fired(@),
                          !.acceptCleanup = Fired(@)])]
    /\ table' = CleanupTable(CleanupTable(table, c, sk[c].dialCleanup),
                             c, sk[c].acceptCleanup)
    /\ services' = CleanupRegistry(CleanupRegistry(services, c, sk[c].dialCleanup),
                                   c, sk[c].acceptCleanup)
    /\ UNCHANGED <<conns, clients, servers, srv, shutdown, sdPc, sdWait>>

\* 'close': both directions are finished; it is emitted from the close
\* phase of the event loop, after the pending setImmediate callbacks have
\* run.  The close listener runs:
\* this.clients.delete(hash(opts)); this.conns.delete(conn)
OnClose(c) ==
    /\ sk[c].sock = "open" /\ sk[c].ended /\ sk[c].localEnd
    /\ sk[c].dialCleanup.st # "scheduled" /\ sk[c].acceptCleanup.st # "scheduled"
    /\ clients' = IF sk[c].dir = "out" THEN MapRemove(clients, sk[c].addr)
                  ELSE clients
    /\ conns' = conns \ {c}
    /\ sdWait' = [sdWait EXCEPT !.conns = @ \ {c}]
    /\ sk' = Collect([sk EXCEPT ![c].sock = "closed"],
                     conns', clients', services, sdWait')
    /\ UNCHANGED <<servers, srv, services, table, shutdown, sdPc>>

\* What is left of a connection whose socket failed: the destroyed socket,
\* which conns, clients and the registry may still hold, and a reconnect
\* closure whose timer is already running.  Of the Provider of a destroyed
\* socket only what can still be read through the registry is kept.
Wreck(r, listed) ==
    [UnusedSlot EXCEPT
        !.sock = "closed", !.dir = r.dir, !.addr = r.addr,
        !.localEnd = TRUE, !.awaited = r.awaited,
        !.provider = listed /\ r.provider,
        !.handshaked = listed /\ r.handshaked,
        !.psvcs = IF listed THEN r.psvcs ELSE {},
        !.rcPc = IF r.rcPc \in {"timer", "attempt"} THEN r.rcPc ELSE "none",
        !.count = IF r.rcPc \in {"timer", "attempt"} THEN r.count ELSE 0,
        !.attempts = IF r.rcPc \in {"timer", "attempt"} THEN r.attempts ELSE 0]

\* The socket fails (ECONNRESET, EPIPE, ..): 'error', then 'close'.  Every
\* events.once(sock, ..) that is waiting rejects on 'error': the close
\* listener (so clients and conns keep the socket), the cleanup and the
\* reconnect closures, and the promise shutdown() awaits (so shutdown()
\* throws).  A running read loop ends, and what connect() or the accept
\* callback awaits on the socket rejects.
OnError(c) ==
    /\ sk[c].sock = "open"
    /\ sdPc' = IF c \in sdWait.conns THEN "threw" ELSE sdPc
    /\ sdWait' = IF c \in sdWait.conns THEN [conns |-> {}, servers |-> {}]
                  ELSE sdWait
    /\ LET f == IF ConnectPending(sk[c]) THEN Settle(sk, c, FALSE) ELSE sk
       IN sk' = Collect([f EXCEPT ![c] = Wreck(sk[c], InRegistry(services, c))],
                        conns, clients, services, sdWait')
    /\ UNCHANGED <<conns, clients, servers, srv, services, table, shutdown>>

-----------------------------------------------------------------------------
(***************************************************************************)
(* The reconnect closure                                                   *)
(***************************************************************************)
\* if (count-- === 0) { give up; return }
GiveUp(c) == sk[c].count = 0

\* setTimeout(reconnect, 500) fires.
Reconnect(c) ==
    /\ sk[c].rcPc = "timer"
    /\ IF shutdown
       THEN sk' = GC([sk EXCEPT ![c] = ChainOver(@, "done")])
       ELSE IF GiveUp(c)
       THEN sk' = GC([sk EXCEPT ![c] = ChainOver(@, "gaveUp")])
       ELSE /\ CanConnect(sk[c].addr)
            /\ sk' = GC(ConnectBody([sk EXCEPT ![c].count = @ - 1,
                                               ![c].attempts = @ + 1],
                                    sk[c].addr, c))
    /\ UNCHANGED <<conns, clients, servers, srv, services, table, shutdown,
                   sdPc, sdWait>>

-----------------------------------------------------------------------------
(***************************************************************************)
(* Node.listen and the connection callback of net.createServer             *)
(***************************************************************************)
NewServer == CHOOSE s \in ServerIds :
                /\ srv[s].st = "unused"
                /\ \A r \in ServerIds : srv[r].st = "unused" => s <= r

ListenCallNoCheck ==
    /\ \E s \in ServerIds : srv[s].st = "unused"
    /\ srv' = [srv EXCEPT ![NewServer].st = "binding"]
    /\ UNCHANGED <<sk, conns, clients, servers, services, table, shutdown,
                   sdPc, sdWait>>

\* if (this._shutdown) throw new Error("Node is shut down.")
ListenCall ==
    IF shutdown THEN ThrowShutDown
    ELSE ListenCallNoCheck

\* await events.once(server, "listening"); this.servers.add(server);
\* setImmediate(async () => { await events.once(server, "close"); ... })
OnListening(s) ==
    /\ srv[s].st = "binding"
    /\ srv' = [srv EXCEPT ![s].st = "listening"]
    /\ servers' = servers \cup {s}
    /\ UNCHANGED <<sk, conns, clients, services, table, shutdown, sdPc,
                   sdWait>>

\* The bind fails: 'error' rejects events.once(server, "listening").
ListenFail(s) ==
    /\ srv[s].st = "binding"
    /\ srv' = [srv EXCEPT ![s] = UnusedServer]
    /\ UNCHANGED <<sk, conns, clients, servers, services, table, shutdown,
                   sdPc, sdWait>>

\* A peer connects: this.conns.add(conn); setImmediate(...);
\* await serverHandshake(conn)
Accept(s) ==
    /\ srv[s].st = "listening"
    /\ \E c \in Slots : Free(c)
    /\ sk' = [sk EXCEPT ![NewSlot] =
                [UnusedSlot EXCEPT !.sock = "open", !.dir = "in", !.server = s,
                                   !.pc = "keyExchange"]]
    /\ conns' = conns \cup {NewSlot}
    /\ UNCHANGED <<clients, servers, srv, services, table, shutdown, sdPc,
                   sdWait>>

\* serverHandshake resolves: new Provider; setImmediate(read)
ServerKeyExchangeOk(c) ==
    /\ sk[c].dir = "in" /\ sk[c].pc = "keyExchange"
    /\ sk[c].sock = "open" /\ ~sk[c].ended
    /\ sk' = [sk EXCEPT ![c].provider = TRUE, ![c].readPc = "running",
                        ![c].pc = "serving"]
    /\ UNCHANGED <<conns, clients, servers, srv, services, table, shutdown,
                   sdPc, sdWait>>

\* serverHandshake rejects: catch (err) { conn.end() }
ServerKeyExchangeFail(c) ==
    /\ sk[c].dir = "in" /\ sk[c].pc = "keyExchange"
    /\ sk' = [sk EXCEPT ![c].localEnd = TRUE, ![c].pc = "failed"]
    /\ UNCHANGED <<conns, clients, servers, srv, services, table, shutdown,
                   sdPc, sdWait>>

\* The listener's 'close': server.close() was called and every connection
\* it accepted has closed; the close listener runs:
\* this.servers.delete(server)
OnServerClose(s) ==
    /\ srv[s].st = "closing"
    /\ \A c \in Slots : (sk[c].dir = "in" /\ sk[c].server = s) => sk[c].sock # "open"
    /\ srv' = [srv EXCEPT ![s].st = "closed"]
    /\ servers' = servers \ {s}
    /\ sdWait' = [sdWait EXCEPT !.servers = @ \ {s}]
    /\ UNCHANGED <<sk, conns, clients, services, table, shutdown, sdPc>>

-----------------------------------------------------------------------------
(***************************************************************************)
(* Node.shutdown                                                           *)
(***************************************************************************)
\* this._shutdown = true; for each conn: once(conn, "close"), conn.end();
\* for each server: once(server, "close"), server.close()
ShutdownCallNoCheck ==
    /\ shutdown' = TRUE
    /\ sk' = [c \in Slots |-> IF c \in conns
                              THEN [sk[c] EXCEPT !.localEnd = TRUE, !.awaited = TRUE]
                              ELSE sk[c]]
    /\ srv' = [s \in ServerIds |-> IF s \in servers /\ srv[s].st = "listening"
                                   THEN [srv[s] EXCEPT !.st = "closing"]
                                   ELSE srv[s]]
    /\ sdWait' = [conns |-> conns, servers |-> servers]
    /\ sdPc' = "waiting"
    /\ UNCHANGED <<conns, clients, servers, services, table>>

\* if (this._shutdown) throw new Error("Node is shut down.")
ShutdownCall ==
    IF shutdown THEN ThrowShutDown
    ELSE ShutdownCallNoCheck

\* await Promise.all(promises) resolves once every 'close' has arrived.
AllClosed(w) == w.conns = {} /\ w.servers = {}

ShutdownReturn ==
    /\ sdPc = "waiting"
    /\ AllClosed(sdWait)
    /\ sdPc' = "returned"
    /\ UNCHANGED <<sk, conns, clients, servers, srv, services, table, shutdown,
                   sdWait>>

-----------------------------------------------------------------------------
(***************************************************************************)
(* Node.push                                                               *)
(***************************************************************************)
Requests == {<<s>> : s \in ServiceNames}

PushCallNoCheck(req) ==
    /\ UNCHANGED <<sk, conns, clients, servers, srv, services, table, shutdown,
                   sdPc, sdWait>>

\* if (this._shutdown) throw new Error("Node is shut down.")
PushCall(req) ==
    IF shutdown THEN ThrowShutDown
    ELSE PushCallNoCheck(req)

-----------------------------------------------------------------------------
(***************************************************************************)
(* Node.bootstrap                                                          *)
(*                                                                         *)
(* connect() and client.request() are taken by their outcome here: each    *)
(* resolves or throws, and bootstrap() catches what they throw.            *)
(***************************************************************************)
\* Distance to the node's own key orders the peers; every closestTo(pub, ..)
\* of the run, local or remote, lists them in this order.
Rank(k) == CASE k = "p1" -> 1 [] k = "p2" -> 2 [] OTHER -> 3

RECURSIVE SortedSeq(_)
SortedSeq(S) ==
    IF S = {} THEN <<>>
    ELSE LET m == CHOOSE x \in S : \A y \in S : Rank(x) <= Rank(y)
         IN <<m>> \o SortedSeq(S \ {m})

\* this.table.closestTo(pub, this.table.cap)
ClosestTo(t) == SortedSeq(t)

\* The history counters and closest.length (read by the final debug line
\* only) are counted up to a bound and stay there, so that a run of any
\* number of rounds stays inside the model.
UpTo(n, bound) == IF n < bound THEN n ELSE bound

\* res.closest.filter((id) => !visited.has(hex(id.publicKey)))
Unvisited(res, vis) == SelectSeq(res, LAMBDA k : k \notin vis)

\* for (const id of queue) visited.add(...)
MarkVisited(vis, ids) == vis \cup SeqToSet(ids)

\* What the code marks visited when a FindNodeResponse arrives: nothing.
VisitedAfterResponse(vis, res) == vis

\* One round: await Promise.all(queue.map(async (id) => { ... })).  Every
\* query starts at once with its connect().
RoundOf(frontier) == [i \in DOMAIN frontier |-> "connecting"]

\* bootstrap() is called: the seed frontier, or return on an empty table.
BootstrapStart ==
    /\ bPc = "idle"
    /\ queue' = ClosestTo(table)
    /\ visited' = MarkVisited({}, ClosestTo(table))
    /\ next' = <<>>
    /\ closest' = 0
    /\ IF ClosestTo(table) = <<>>
       THEN bPc' = "done" /\ pending' = <<>> /\ rounds' = rounds
       ELSE bPc' = "round" /\ pending' = RoundOf(ClosestTo(table)) /\ rounds' = 1
    /\ UNCHANGED queried

\* connect() resolved: the FindNodeRequest is written.
QuerySend(i) ==
    /\ bPc = "round" /\ i \in DOMAIN pending /\ pending[i] = "connecting"
    /\ pending' = [pending EXCEPT ![i] = "requested"]
    /\ queried' = [queried EXCEPT ![queue[i]] = UpTo(@ + 1, MaxRounds)]
    /\ UNCHANGED <<bPc, visited, queue, next, closest, rounds>>

\* A failure of connect() or request() that is not caught: the promise of
\* the query rejects, Promise.all rejects and bootstrap() throws.
QueryFailFatal(i) ==
    /\ bPc = "round" /\ i \in DOMAIN pending
    /\ pending[i] \in {"connecting", "requested"}
    /\ bPc' = "threw"
    /\ pending' = [pending EXCEPT ![i] = "failed"]
    /\ UNCHANGED <<visited, queue, next, closest, rounds, queried>>

\* connect() or request() threw: catch (err) { /* ignore */ }
QueryFail(i) ==
    /\ bPc = "round" /\ i \in DOMAIN pending
    /\ pending[i] \in {"connecting", "requested"}
    /\ pending' = [pending EXCEPT ![i] = "failed"]
    /\ UNCHANGED <<bPc, visited, queue, next, closest, rounds, queried>>

\* The FindNodeResponse arrives: filter, closest.push, next.push.
QueryResponse(i, res) ==
    /\ bPc = "round" /\ i \in DOMAIN pending /\ pending[i] = "requested"
    /\ queue[i] \notin SeqToSet(res)   \* a peer's table does not hold the peer
    /\ Len(next) + Len(Unvisited(res, visited)) <= MaxQueue
    /\ next' = next \o Unvisited(res, visited)
    /\ closest' = UpTo(closest + Len(Unvisited(res, visited)), MaxQueue)
    /\ visited' = VisitedAfterResponse(visited, Unvisited(res, visited))
    /\ pending' = [pending EXCEPT ![i] = "done"]
    /\ UNCHANGED <<bPc, queue, rounds, queried>>

\* Every query of the round has settled: answered, or failed and ignored.
RoundSettled == \A i \in DOMAIN pending : pending[i] \in {"done", "failed"}

\* Promise.all resolves: queue = next; the loop ends on an empty queue.
RoundEnd ==
    /\ bPc = "round"
    /\ RoundSettled
    /\ queue' = next
    /\ next' = <<>>
    /\ IF next = <<>>
       THEN bPc' = "done" /\ pending' = <<>> /\ rounds' = rounds
       ELSE /\ bPc' = "round" /\ pending' = RoundOf(next)
            /\ rounds' = UpTo(rounds + 1, MaxRounds)
    /\ UNCHANGED <<visited, closest, queried>>

Responses == {SortedSeq(S) : S \in SUBSET BootKeys}

\* One step of bootstrap(); the connections it uses are taken by their outcome.
BootNext ==
    \/ BootstrapStart /\ UNCHANGED <<nodeVars, peer, rd, qry>>
    \/ \E i \in 1..MaxQueue : QuerySend(i) /\ UNCHANGED <<nodeVars, peer, rd, qry>>
    \/ \E i \in 1..MaxQueue : QueryFail(i) /\ UNCHANGED <<nodeVars, peer, rd, qry>>
    \/ \E i \in 1..MaxQueue, res \in Responses : QueryResponse(i, res) /\ UNCHANGED <<nodeVars, peer, rd, qry>>
    \/ RoundEnd /\ UNCHANGED <<nodeVars, peer, rd, qry>>

-----------------------------------------------------------------------------
(***************************************************************************)
(* Two nodes: this node (B) dials a second Node (A).  A runs the same      *)
(* code; of A the model keeps what one accepted connection touches: its    *)
(* routing table, the Provider of the connection, the cleanup closure of   *)
(* _handle(), and the frames under way in both directions.                 *)
(***************************************************************************)
KeyA == "k1"      \* A's public key
KeyB == "kb"      \* B's public key
\* The end of a direction of the byte stream, in the shape of a frame.
Fin == [id |-> "fin", services |-> {}, signature |-> NoSig]

\* A Handshake packet that is never signed.
OwnHandshakeUnsigned(hasKeys, key, svcs) ==
    [id |-> IF hasKeys THEN key ELSE NoId, services |-> svcs, signature |-> NoSig]

\* new HandshakePacket(this.id, [...Object.keys(this.handlers)], undefined);
\* if (this.keys) signature = nacl.sign.detached(payload, this.keys.secretKey).
\* start() sets this.id exactly when it sets this.keys.
OwnHandshake(hasKeys, key, svcs) ==
    [id |-> IF hasKeys THEN key ELSE NoId,
     services |-> svcs,
     signature |-> IF hasKeys THEN Sign(key, HandshakePayload(key, svcs))
                   ELSE NoSig]

PeerIdle ==
    [keysA |-> FALSE,       \* A was started with a secret key
     keysB |-> FALSE,       \* B was started with a secret key
     table |-> {},          \* A's Node.table
     pc |-> "idle",         \* A's accept callback and read loop
     handshaked |-> FALSE,  \* A's provider.handshaked
     id |-> NoId,           \* A's provider.id
     cleanup |-> "none",    \* A's cleanup closure
     ended |-> FALSE,       \* A's socket has emitted 'end'
     localEnd |-> FALSE,    \* A's socket has ended its own direction
     toA |-> <<>>,          \* written by B, not yet read by A
     toB |-> <<>>]          \* written by A, not yet read by B

\* B's step ends its direction of the connection (sock.end()): the end of
\* the stream follows what B has written.
Wire(p) ==
    IF \E c \in Slots : sk[c].sock = "open" /\ ~sk[c].localEnd /\ sk'[c].localEnd
    THEN [p EXCEPT !.toA = Append(@, Fin)]
    ELSE p

\* B calls connect(A's address), once.
PairConnectCall ==
    /\ peer.pc = "idle" /\ \A c \in Slots : sk[c].sock = "unused"
    /\ \E a \in Addrs : ConnectCall(a)
    /\ UNCHANGED peer

\* The transport connection is up: 'connect' at B, the connection callback
\* of A's server runs up to await serverHandshake(conn).
PairOnConnect(c) ==
    /\ peer.pc = "idle"
    /\ OnConnect(c)
    /\ peer' = [peer EXCEPT !.pc = "keyExchange"]

\* The key exchange completes on both sides; B writes its Handshake request.
PairKeyExchangeOk(c) ==
    /\ peer.pc = "keyExchange" /\ ~peer.ended /\ ~sk[c].localEnd
    /\ ClientKeyExchangeOk(c)
    /\ peer' = [peer EXCEPT !.pc = "serving",
                            !.toA = Append(@, OwnHandshake(peer.keysB, KeyB, {}))]

\* A's _handle(), opcode Handshake, on B's request.
PeerHandleHandshake ==
    /\ peer.pc = "serving" /\ ~peer.ended /\ ~peer.handshaked
    /\ peer.toA # <<>> /\ Head(peer.toA) # Fin
    /\ LET pkt == Head(peer.toA)
       IN IF SignatureChecked(pkt) /\ ~SignatureOk(pkt)
          THEN peer' = [peer EXCEPT !.toA = Tail(@), !.handshaked = TRUE,
                                    !.pc = "stopped", !.localEnd = TRUE,
                                    !.toB = Append(@, Fin)]
          ELSE peer' = [peer EXCEPT
                          !.toA = Tail(@), !.handshaked = TRUE,
                          !.id = IF SignatureChecked(pkt) THEN pkt.id ELSE @,
                          !.table = IF SignatureChecked(pkt)
                                    THEN TableUpdate(@, pkt.id) ELSE @,
                          !.cleanup = "scheduled",
                          !.toB = Append(@, OwnHandshake(peer.keysA, KeyA, {}))]
    /\ UNCHANGED nodeVars

\* A's setImmediate callback: await events.once(provider.sock, "end")
PeerInstallCleanup ==
    /\ peer.cleanup = "scheduled"
    /\ peer' = [peer EXCEPT !.cleanup = "waiting"]
    /\ UNCHANGED nodeVars

\* A reads the end of B's direction: 'end'.  A cleanup closure that is
\* waiting runs; A's socket ends its own direction.
PeerOnEnd ==
    /\ peer.pc # "idle" /\ ~peer.ended
    /\ peer.toA # <<>> /\ Head(peer.toA) = Fin
    /\ peer' = [peer EXCEPT
                  !.toA = Tail(@), !.ended = TRUE, !.pc = "stopped",
                  !.localEnd = TRUE,
                  !.cleanup = IF @ = "waiting" THEN "done" ELSE @,
                  !.table = IF peer.cleanup = "waiting" /\ peer.id # NoId
                            THEN TableDelete(@, peer.id) ELSE @,
                  !.toB = IF peer.localEnd THEN @ ELSE Append(@, Fin)]
    /\ UNCHANGED nodeVars

\* B reads A's Handshake reply: connect() goes on after provider.request.
PairHandshakeResponse(c) ==
    /\ peer.toB # <<>> /\ Head(peer.toB) # Fin
    /\ HandshakeResponse(c, Head(peer.toB))
    /\ peer' = Wire([peer EXCEPT !.toB = Tail(@)])

\* B reads the end of A's direction: 'end' at B.
PairOnEnd(c) ==
    /\ peer.toB # <<>> /\ Head(peer.toB) = Fin
    /\ OnEnd(c)
    /\ peer' = Wire([peer EXCEPT !.toB = Tail(@)])

\* The pending request of connect() fails on the ended connection, or the
\* key exchange fails: catch (err) { conn.end(); throw err }
PairConnectThrow(c) ==
    /\ ConnectThrow(c)
    /\ peer' = Wire(peer)

PairInstallEndHandlers(c) ==
    /\ InstallEndHandlers(c)
    /\ UNCHANGED peer

\* B's socket closes once both directions are finished.
PairOnClose(c) ==
    /\ peer.ended /\ peer.toB = <<>>
    /\ OnClose(c)
    /\ UNCHANGED peer

\* B calls shutdown() at any moment, also while its connect() is under way.
PairShutdownCall ==
    /\ ~shutdown
    /\ ShutdownCall
    /\ peer' = Wire(peer)

PairShutdownReturn ==
    /\ ShutdownReturn
    /\ UNCHANGED peer

PairNext ==
    \/ PairConnectCall /\ UNCHANGED <<bootVars, rd, qry>>
    \/ \E c \in Slots : PairOnConnect(c) /\ UNCHANGED <<bootVars, rd, qry>>
    \/ \E c \in Slots : PairKeyExchangeOk(c) /\ UNCHANGED <<bootVars, rd, qry>>
    \/ PeerHandleHandshake /\ UNCHANGED <<bootVars, rd, qry>>
    \/ PeerInstallCleanup /\ UNCHANGED <<bootVars, rd, qry>>
    \/ PeerOnEnd /\ UNCHANGED <<bootVars, rd, qry>>
    \/ \E c \in Slots : PairHandshakeResponse(c) /\ UNCHANGED <<bootVars, rd, qry>>
    \/ \E c \in Slots : PairOnEnd(c) /\ UNCHANGED <<bootVars, rd, qry>>
    \/ \E c \in Slots : PairConnectThrow(c) /\ UNCHANGED <<bootVars, rd, qry>>
    \/ \E c \in Slots : PairInstallEndHandlers(c) /\ UNCHANGED <<bootVars, rd, qry>>
    \/ \E c \in Slots : PairOnClose(c) /\ UNCHANGED <<bootVars, rd, qry>>
    \/ PairShutdownCall /\ UNCHANGED <<bootVars, rd, qry>>
    \/ PairShutdownReturn /\ UNCHANGED <<bootVars, rd, qry>>

-----------------------------------------------------------------------------
(***************************************************************************)
(* One accepted connection, frame by frame: Node.read, Node._read and      *)
(* Node._handle for every opcode, the streams of the Provider and the      *)
(* application handlers started by setImmediate.  The effects on the       *)
(* routing table and the registry are made on table and services.          *)
(***************************************************************************)
StreamIds == 1..MaxStreams

\* Object.keys(opts.services): the services the application handles.
HandlerNames == {"x"}

\* this.handlers is a plain object ({} or the object literal passed as
\* opts.services), so `service in this.handlers` also holds for the names
\* every object inherits from Object.prototype.  handlers["toString"] is a
\* function that returns without writing to ctx and without throwing.
InheritedNames == {"toString"}

\* packet.services of the ServiceRequests a peer sends.
RequestLists == {<<"x">>, <<"y">>, <<"y", "x">>, <<"toString">>}

NoPacket == [id |-> NoId, services |-> {}, signature |-> NoSig]

\* The Handshake packets of the frames: signed by the key of the identity,
\* signed by another key, and without identity.
FramePackets ==
    {[id |-> "k1", services |-> {"x"},
      signature |-> Sign("k1", HandshakePayload("k1", {"x"}))],
     [id |-> "k1", services |-> {"x"},
      signature |-> Sign("kx", HandshakePayload("k1", {"x"}))],
     [id |-> NoId, services |-> {"x"}, signature |-> NoSig]}

Frame(op, pkt, id, svcs, handled) ==
    [op |-> op, pkt |-> pkt, id |-> id, services |-> svcs, handled |-> handled,
     seq |-> 0, target |-> NoId]

NoFrame == Frame("none", NoPacket, 0, <<>>, FALSE)

Frames ==
    {Frame("Handshake", p, 0, <<>>, FALSE) : p \in FramePackets}
    \cup {Frame("ServiceRequest", NoPacket, i, l, FALSE) :
             i \in StreamIds, l \in RequestLists}
    \cup {Frame("ServiceResponse", NoPacket, i, <<>>, h) :
             i \in StreamIds, h \in BOOLEAN}
    \cup {Frame("Data", NoPacket, i, <<>>, FALSE) : i \in StreamIds}
    \* FindNodeRequest frames: their seq and packet.target
    \cup {[Frame("FindNodeRequest", NoPacket, 0, <<>>, FALSE)
              EXCEPT !.seq = q, !.target = g] : q \in {1, 2}, g \in {"p1", "p2"}}

\* The Provider of the connection, as the registry holds it.
RdProvider == 1

\* service in this.handlers
HasHandler(s) == s \in HandlerNames \cup InheritedNames

\* packet.services.find((service) => service in this.handlers)
RECURSIVE FindService(_)
FindService(list) ==
    IF list = <<>> THEN "none"
    ELSE IF HasHandler(Head(list)) THEN Head(list)
    ELSE FindService(Tail(list))

\* A ServiceResponse frame written to the peer.
Response(id, handled, error) == [id |-> id, handled |-> handled, error |-> error]

NoJob == [st |-> "none", svc |-> "none", ended |-> FALSE]

\* A FindNodeResponse written to the peer: the seq of its frame and the
\* identities it lists.
FindNodeResponse(seq, ids) == [seq |-> seq, closest |-> ids]

RdIdle ==
    [pc |-> "next",         \* _read: next (at for await) | write (in _handle,
                            \* at await provider.write) | stopped
     inbox |-> <<>>,        \* frames received and not yet dispatched
     received |-> 0,        \* history: frames received
     last |-> 0,            \* history: receipt number of the last dispatched frame
     cur |-> NoFrame,       \* history: the last dispatched frame
     fatal |-> FALSE,       \* history: _handle threw
     handshaked |-> FALSE,  \* provider.handshaked
     id |-> NoId,           \* provider.id
     cleanup |-> NoCleanup, \* the cleanup closure of _handle
     ended |-> FALSE,       \* 'end' was emitted
     localEnd |-> FALSE,    \* provider.sock.end() was called
     streams |-> {},        \* provider.streams: registered stream ids
     pulled |-> {},         \* streams that were delivered response headers
     chunks |-> [i \in StreamIds |-> 0],   \* Data chunks delivered per stream
     jobs |-> [i \in StreamIds |-> NoJob], \* the handler started per stream
     out |-> {},            \* history: ServiceResponses written to the peer
     thrownAt |-> 0,        \* history: value of last when a handler last threw
     reply |-> FindNodeResponse(0, <<>>),  \* history: the last FindNodeResponse written
     unserved |-> {}]       \* history: streams requested with no service
                            \* the application handles

\* The frame the read loop takes next.
NextFrameNewest(inbox) == inbox[Len(inbox)]

\* for await (const { seq, opcode, frame } of provider.read())
NextFrame(inbox) == Head(inbox)

\* A frame arrives on the socket.
RdReceive(f) ==
    /\ rd.pc # "stopped" /\ ~rd.ended /\ rd.received < MaxFrames
    /\ rd' = [rd EXCEPT !.received = @ + 1,
                        !.inbox = Append(@, [n |-> rd.received + 1, f |-> f])]
    /\ UNCHANGED <<table, services>>

\* throw in _handle: _read rejects, read() catches and calls sock.end().
RdThrow(r) == [r EXCEPT !.pc = "stopped", !.localEnd = TRUE, !.fatal = TRUE]

\* provider.streams.get(packet.id) finds a stream.
StreamKnownAlways(streams, id) == TRUE

StreamKnown(streams, id) == id \in streams

\* case Opcode.Handshake
RdHandshake(r, pkt) ==
    IF r.handshaked
    THEN rd' = RdThrow(r) /\ UNCHANGED <<table, services>>
    ELSE IF SignatureChecked(pkt) /\ ~SignatureOk(pkt)
    THEN rd' = RdThrow([r EXCEPT !.handshaked = TRUE]) /\ UNCHANGED <<table, services>>
    ELSE /\ rd' = [r EXCEPT !.handshaked = TRUE,
                            !.id = IF SignatureChecked(pkt) THEN pkt.id ELSE @,
                            !.cleanup = [st |-> "scheduled", svcs |-> pkt.services],
                            !.pc = "write"]
         /\ table' = IF SignatureChecked(pkt) THEN TableUpdate(table, pkt.id) ELSE table
         /\ services' = RegistryAdd(services, RdProvider, pkt.services)

\* case Opcode.ServiceRequest.  streams.register on an id in use throws or
\* replaces the stream (dup); a replaced stream takes the place of the old
\* one in the model, together with the handler started for it.
RdServiceRequest(r, f, dup) ==
    /\ UNCHANGED <<table, services>>
    /\ IF f.id \in r.streams /\ dup = "throw"
       THEN rd' = RdThrow(r)
       ELSE LET g == [r EXCEPT
                        !.streams = @ \cup {f.id},
                        !.unserved = IF SeqToSet(f.services) \cap HandlerNames = {}
                                     THEN @ \cup {f.id} ELSE @ \ {f.id}]
            IN IF FindService(f.services) = "none"
               THEN rd' = [g EXCEPT !.out = @ \cup {Response(f.id, FALSE, FALSE)},
                                    !.pc = "write"]
               ELSE rd' = [g EXCEPT !.jobs[f.id] =
                              [st |-> "queued", svc |-> FindService(f.services),
                               ended |-> FALSE]]

\* case Opcode.ServiceResponse: streams.pull delivers the headers; a
\* response with handled = false ends the stream.
RdServiceResponse(r, f) ==
    /\ UNCHANGED <<table, services>>
    /\ IF ~StreamKnown(r.streams, f.id)
       THEN rd' = RdThrow(r)
       ELSE rd' = [r EXCEPT !.pulled = @ \cup {f.id},
                            !.streams = IF f.handled THEN @ ELSE @ \ {f.id}]

\* case Opcode.Data: streams.recv appends the chunk.
RdData(r, f) ==
    /\ UNCHANGED <<table, services>>
    /\ IF ~StreamKnown(r.streams, f.id)
       THEN rd' = RdThrow(r)
       ELSE rd' = [r EXCEPT !.chunks[f.id] = @ + 1]

\* A reply written with sequence number 0, as the ServiceResponse of the
\* ServiceRequest case is.
RdFindNodeUnsolicited(r, f) ==
    /\ UNCHANGED <<table, services>>
    /\ rd' = [r EXCEPT !.pc = "write",
                       !.reply = FindNodeResponse(0,
                                    ClosestToTarget(table, f.target, TableCap))]

\* case Opcode.FindNodeRequest:
\* new FindNodeResponse(this.table.closestTo(packet.target, this.table.cap));
\* await provider.write(provider.rpc.message(seq, response.encode()))
RdFindNode(r, f) ==
    /\ UNCHANGED <<table, services>>
    /\ rd' = [r EXCEPT !.pc = "write",
                       !.reply = FindNodeResponse(f.seq,
                                    ClosestToTarget(table, f.target, TableCap))]

\* _read takes the next frame and calls _handle, which runs up to its first
\* await or to its return.
RdDispatch(dup) ==
    /\ rd.pc = "next" /\ rd.inbox # <<>>
    /\ LET e == NextFrame(rd.inbox)
           r == [rd EXCEPT !.inbox = SelectSeq(@, LAMBDA x : x # e),
                           !.last = e.n, !.cur = e.f]
       IN CASE e.f.op = "Handshake" -> RdHandshake(r, e.f.pkt)
            [] e.f.op = "ServiceRequest" -> RdServiceRequest(r, e.f, dup)
            [] e.f.op = "ServiceResponse" -> RdServiceResponse(r, e.f)
            [] e.f.op = "Data" -> RdData(r, e.f)
            [] OTHER -> RdFindNode(r, e.f)

\* await provider.write(...) resolves and _handle returns; after 'end' the
\* frame sequence is over and read() calls sock.end().
RdWriteDone ==
    /\ rd.pc = "write"
    /\ rd' = [rd EXCEPT !.pc = IF rd.ended THEN "stopped" ELSE "next"]
    /\ UNCHANGED <<table, services>>

\* await provider.write(...) rejects: _handle throws.
RdWriteFail ==
    /\ rd.pc = "write"
    /\ rd' = RdThrow(rd)
    /\ UNCHANGED <<table, services>>

\* The setImmediate callback of the Handshake case starts waiting for 'end'.
RdInstallCleanup ==
    /\ rd.cleanup.st = "scheduled"
    /\ rd' = [rd EXCEPT !.cleanup.st = "waiting"]
    /\ UNCHANGED <<table, services>>

\* 'end': every frame the peer sent has been taken.  A waiting cleanup
\* closure runs; the frame sequence ends and read() calls sock.end().
RdEnd ==
    /\ ~rd.ended /\ rd.inbox = <<>>
    /\ rd' = [rd EXCEPT !.ended = TRUE, !.localEnd = TRUE,
                        !.pc = IF @ = "next" THEN "stopped" ELSE @,
                        !.cleanup = Fired(@)]
    /\ table' = IF rd.cleanup.st = "waiting" /\ rd.id # NoId
                THEN TableDelete(table, rd.id) ELSE table
    /\ services' = IF rd.cleanup.st = "waiting"
                   THEN RegistryRemove(services, RdProvider, rd.cleanup.svcs)
                   ELSE services

\* setImmediate(async () => { try { await handler(ctx) } ... }): the
\* handler starts.
RdHandlerStart(i) ==
    /\ rd.jobs[i].st = "queued"
    /\ rd' = [rd EXCEPT !.jobs[i].st = "running"]
    /\ UNCHANGED <<table, services>>

\* The application's handler answers: it writes its response and ends ctx.
\* On a connection that is ended nothing reaches the peer.
RdHandlerRespond(i) ==
    /\ rd.jobs[i].st = "running" /\ rd.jobs[i].svc \in HandlerNames
    /\ ~rd.jobs[i].ended
    /\ rd' = [rd EXCEPT !.jobs[i].ended = TRUE,
                        !.out = IF rd.localEnd THEN @
                                ELSE @ \cup {Response(i, TRUE, FALSE)}]
    /\ UNCHANGED <<table, services>>

\* await handler(ctx) resolves.
RdHandlerReturn(i) ==
    /\ rd.jobs[i].st = "running"
    /\ rd' = [rd EXCEPT !.jobs[i].st = "done"]
    /\ UNCHANGED <<table, services>>

\* The handler's error reaches the read loop.
RdHandlerThrowUncaught(i) ==
    /\ rd.jobs[i].st = "running" /\ rd.jobs[i].svc \in HandlerNames
    /\ rd' = RdThrow([rd EXCEPT !.jobs[i].st = "failed", !.thrownAt = rd.last])
    /\ UNCHANGED <<table, services>>

\* The application's handler throws:
\* catch (err) { if (!ctx.writableEnded) ctx.json({ error: ... }) }
RdHandlerThrow(i) ==
    /\ rd.jobs[i].st = "running" /\ rd.jobs[i].svc \in HandlerNames
    /\ rd' = [rd EXCEPT !.jobs[i].st = "failed",
                        !.jobs[i].ended = TRUE,
                        !.thrownAt = rd.last,
                        !.out = IF rd.jobs[i].ended \/ rd.localEnd THEN @
                                ELSE @ \cup {Response(i, TRUE, TRUE)}]
    /\ UNCHANGED <<table, services>>

\* What the read loop of the connection leaves alone.
offRd == <<sk, conns, clients, servers, srv, shutdown, sdPc, sdWait>>

RdNext ==
    \/ \E f \in Frames : RdReceive(f) /\ UNCHANGED <<offRd, bootVars, peer, qry>>
    \/ \E dup \in {"throw", "replace"} : RdDispatch(dup) /\ UNCHANGED <<offRd, bootVars, peer, qry>>
    \/ RdWriteDone /\ UNCHANGED <<offRd, bootVars, peer, qry>>
    \/ RdWriteFail /\ UNCHANGED <<offRd, bootVars, peer, qry>>
    \/ RdInstallCleanup /\ UNCHANGED <<offRd, bootVars, peer, qry>>
    \/ RdEnd /\ UNCHANGED <<offRd, bootVars, peer, qry>>
    \/ \E i \in StreamIds : RdHandlerStart(i) /\ UNCHANGED <<offRd, bootVars, peer, qry>>
    \/ \E i \in StreamIds : RdHandlerRespond(i) /\ UNCHANGED <<offRd, bootVars, peer, qry>>
    \/ \E i \in StreamIds : RdHandlerReturn(i) /\ UNCHANGED <<offRd, bootVars, peer, qry>>
    \/ \E i \in StreamIds : RdHandlerThrow(i) /\ UNCHANGED <<offRd, bootVars, peer, qry>>

-----------------------------------------------------------------------------
(***************************************************************************)
(* Node.push and Node.providersFor over a registry that Handshakes have    *)
(* filled and cleanup closures have emptied.                               *)
(***************************************************************************)
QProviders == 1..MaxProviders
QRequests == {<<"x">>, <<"y">>, <<"x", "y">>, <<"y", "x">>}

\* What provider.push(...) comes to on the chosen Provider.
PushOutcomes == {"response", "error"}

QIdle ==
    [st |-> [p \in QProviders |-> "none"],  \* none | listed | gone
     ids |-> [p \in QProviders |-> NoId],   \* provider.id?.publicKey
     psvcs |-> [p \in QProviders |-> {}],   \* provider.services
     op |-> "none",                         \* the last call
     req |-> <<>>,                          \* its services argument
     sent |-> <<>>,       \* push: the Providers the request was forwarded to
     outcome |-> "none",  \* push: what the call came to
     found |-> <<>>]      \* providersFor: the list returned

\* A push that goes on to the next Provider when one fails.
PushToAll(reg, req, o) ==
    IF Providers(reg, req) = <<>>
    THEN [sent |-> <<>>, outcome |-> "noNodes"]
    ELSE [sent |-> IF o = "error" THEN Providers(reg, req)
                   ELSE <<Head(Providers(reg, req))>>,
          outcome |-> o]

\* const providers = this._providers(services);
\* for (const provider of providers) return await provider.push(...);
\* throw new Error("No nodes were able to process your request ...")
PushTo(reg, req, o) ==
    IF Providers(reg, req) = <<>>
    THEN [sent |-> <<>>, outcome |-> "noNodes"]
    ELSE [sent |-> <<Head(Providers(reg, req))>>, outcome |-> o]

\* map.set(hash(provider.id.publicKey), provider) on the Map built so far:
\* a new key is appended, a key already present keeps its place and takes
\* the new value.
MapSetByKey(acc, ids, p) ==
    IF \E i \in DOMAIN acc : ids[acc[i]] = ids[p]
    THEN [i \in DOMAIN acc |-> IF ids[acc[i]] = ids[p] THEN p ELSE acc[i]]
    ELSE Append(acc, p)

\* this._providers(services).reduce((map, provider) =>
\*   provider.id?.publicKey ? map.set(hash(publicKey), provider) : map, new Map)
RECURSIVE ReduceByKey(_, _, _)
ReduceByKey(acc, ids, list) ==
    IF list = <<>> THEN acc
    ELSE ReduceByKey(IF ids[Head(list)] # NoId
                     THEN MapSetByKey(acc, ids, Head(list)) ELSE acc,
                     ids, Tail(list))

\* providersFor(services): [...map.values()]
ProvidersFor(reg, ids, req) == ReduceByKey(<<>>, ids, Providers(reg, req))

\* The record of the last call is kept until the registry changes again.
Forget(r) ==
    [r EXCEPT !.op = "none", !.req = <<>>, !.sent = <<>>, !.outcome = "none",
              !.found = <<>>]

\* A Handshake of Provider p is accepted: its identity, when it presents
\* one that verifies, and its services are recorded.
QHandshake(p, id, svcs) ==
    /\ qry.st[p] = "none"
    /\ qry' = Forget([qry EXCEPT !.st[p] = "listed", !.ids[p] = id,
                                 !.psvcs[p] = svcs])
    /\ services' = RegistryAdd(services, p, svcs)

\* The cleanup closure of Provider p runs on 'end'; nothing refers to the
\* Provider afterwards.
QCleanup(p) ==
    /\ qry.st[p] = "listed"
    /\ qry' = Forget([qry EXCEPT !.st[p] = "gone", !.ids[p] = NoId,
                                 !.psvcs[p] = {}])
    /\ services' = RegistryRemove(services, p, qry.psvcs[p])

\* push(services, headers, body) is called; provider.push comes to o.
QPush(req, o) ==
    /\ qry' = [qry EXCEPT !.op = "push", !.req = req, !.found = <<>>,
                      !.sent = IF shutdown THEN <<>> ELSE PushTo(services, req, o).sent,
                      !.outcome = IF shutdown THEN "shutDown"
                                  ELSE PushTo(services, req, o).outcome]
    /\ UNCHANGED services

\* providersFor(services) is called.
QProvidersFor(req) ==
    /\ qry' = [qry EXCEPT !.op = "providersFor", !.req = req, !.sent = <<>>,
                      !.outcome = "none",
                      !.found = ProvidersFor(services, qry.ids, req)]
    /\ UNCHANGED services

\* What push and providersFor and the registrations leave alone.
offQ == <<sk, conns, clients, servers, srv, table, shutdown, sdPc, sdWait>>

QNext ==
    \/ \E p \in QProviders, id \in {"k1", "k2", NoId}, svcs \in SUBSET {"x", "y"} : QHandshake(p, id, svcs) /\ UNCHANGED <<offQ, bootVars, peer, rd>>
    \/ \E p \in QProviders : QCleanup(p) /\ UNCHANGED <<offQ, bootVars, peer, rd>>
    \/ \E req \in QRequests, o \in PushOutcomes : QPush(req, o) /\ UNCHANGED <<offQ, bootVars, peer, rd>>
    \/ \E req \in QRequests : QProvidersFor(req) /\ UNCHANGED <<offQ, bootVars, peer, rd>>

-----------------------------------------------------------------------------
BootIdle ==
    /\ bPc = "idle"
    /\ visited = {}
    /\ queue = <<>>
    /\ next = <<>>
    /\ pending = <<>>
    /\ closest = 0
    /\ rounds = 0
    /\ queried = [k \in BootKeys |-> 0]

NodeInit ==
    /\ sk = [c \in Slots |-> UnusedSlot]
    /\ conns = {}
    /\ clients = [a \in {} |-> 0]
    /\ servers = {}
    /\ srv = [s \in ServerIds |-> UnusedServer]
    /\ services = EmptyRegistry
    /\ shutdown = FALSE
    /\ sdPc = "idle"
    /\ sdWait = [conns |-> {}, servers |-> {}]

Init == NodeInit /\ table = {} /\ BootIdle /\ peer = PeerIdle /\ rd = RdIdle /\ qry = QIdle

\* bootstrap() runs on a node whose routing table holds any known peers.
BootInit == NodeInit /\ table \in SUBSET BootKeys /\ BootIdle /\ peer = PeerIdle /\ rd = RdIdle /\ qry = QIdle

\* One step of the node; bootstrap() is not running.
Next ==
    \/ \E a \in Addrs : ConnectCall(a) /\ UNCHANGED <<bootVars, peer, rd, qry>>
    \/ \E c \in Slots : OnConnect(c) /\ UNCHANGED <<bootVars, peer, rd, qry>>
    \/ \E c \in Slots : DialFail(c) /\ UNCHANGED <<bootVars, peer, rd, qry>>
    \/ \E c \in Slots : ClientKeyExchangeOk(c) /\ UNCHANGED <<bootVars, peer, rd, qry>>
    \/ \E c \in Slots : ConnectThrow(c) /\ UNCHANGED <<bootVars, peer, rd, qry>>
    \/ \E c \in Slots, pkt \in HandshakePackets : HandshakeResponse(c, pkt) /\ UNCHANGED <<bootVars, peer, rd, qry>>
    \/ \E c \in Slots : InstallEndHandlers(c) /\ UNCHANGED <<bootVars, peer, rd, qry>>
    \/ \E c \in Slots : InstallAcceptCleanup(c) /\ UNCHANGED <<bootVars, peer, rd, qry>>
    \/ \E c \in Slots, pkt \in HandshakePackets : HandleHandshake(c, pkt) /\ UNCHANGED <<bootVars, peer, rd, qry>>
    \/ \E c \in Slots : OnEnd(c) /\ UNCHANGED <<bootVars, peer, rd, qry>>
    \/ \E c \in Slots : OnClose(c) /\ UNCHANGED <<bootVars, peer, rd, qry>>
    \/ \E c \in Slots : OnError(c) /\ UNCHANGED <<bootVars, peer, rd, qry>>
    \/ \E c \in Slots : Reconnect(c) /\ UNCHANGED <<bootVars, peer, rd, qry>>
    \/ ListenCall /\ UNCHANGED <<bootVars, peer, rd, qry>>
    \/ \E s \in ServerIds : OnListening(s) /\ UNCHANGED <<bootVars, peer, rd, qry>>
    \/ \E s \in ServerIds : ListenFail(s) /\ UNCHANGED <<bootVars, peer, rd, qry>>
    \/ \E s \in ServerIds : Accept(s) /\ UNCHANGED <<bootVars, peer, rd, qry>>
    \/ \E c \in Slots : ServerKeyExchangeOk(c) /\ UNCHANGED <<bootVars, peer, rd, qry>>
    \/ \E c \in Slots : ServerKeyExchangeFail(c) /\ UNCHANGED <<bootVars, peer, rd, qry>>
    \/ \E s \in ServerIds : OnServerClose(s) /\ UNCHANGED <<bootVars, peer, rd, qry>>
    \/ ShutdownCall /\ UNCHANGED <<bootVars, peer, rd, qry>>
    \/ ShutdownReturn /\ UNCHANGED <<bootVars, peer, rd, qry>>
    \/ \E req \in Requests : PushCall(req) /\ UNCHANGED <<bootVars, peer, rd, qry>>

Spec == Init /\ [][Next]_vars

\* The event loop runs what is pending: a transport event that is due, a
\* queued callback or timer, and the continuation of
\* `await Promise.all(promises)` once the promises are resolved.
FairSpec ==
    /\ Spec
    /\ WF_vars(Next)
    /\ WF_vars(ShutdownReturn /\ UNCHANGED <<bootVars, peer, rd, qry>>)

BootSpec == BootInit /\ [][BootNext]_vars

\* Either node is started with or without a secret key.
PairInit ==
    /\ NodeInit /\ table = {} /\ BootIdle /\ rd = RdIdle /\ qry = QIdle
    /\ peer \in {[PeerIdle EXCEPT !.keysA = a, !.keysB = b] : a, b \in BOOLEAN}

PairSpec == PairInit /\ [][PairNext]_vars

\* Calls of push() and providersFor() between registrations and cleanups.
QSpec == Init /\ [][QNext]_vars

\* The read loop of a connection whose key exchange has completed.
RdSpec == Init /\ [][RdNext]_vars

\* The same connection on a node whose routing table already holds the
\* peers it learned over other connections.
FindInit ==
    /\ NodeInit /\ table = {"p1", "p2", "p3"} /\ BootIdle
    /\ peer = PeerIdle /\ rd = RdIdle /\ qry = QIdle

FindSpec == FindInit /\ [][RdNext]_vars

\* Every connect() and request() of a round settles (the premise that each
\* query completes or fails), and the continuation of Promise.all runs.
BootFairSpec == BootSpec /\ WF_vars(BootNext)

-----------------------------------------------------------------------------
(***************************************************************************)
(* Properties                                                              *)
(***************************************************************************)
\* A connect() to address a is in flight on slot c: its socket is dialling
\* or open and the call has neither resolved nor thrown.
DialInFlight(c, a) ==
    /\ sk[c].dir = "out" /\ sk[c].addr = a
    /\ ConnectPending(sk[c])
    /\ sk[c].sock \in {"connecting", "open"} /\ ~sk[c].ended

\* The step opens a transport connection to address a.
Dials(a) ==
    \E n \in Slots : /\ sk[n].sock = "unused"
                      /\ sk'[n].sock = "connecting" /\ sk'[n].addr = a

\* C1: while a connect(addr) has not resolved, a further connect(addr)
\* opens no second transport connection for that address.  Refuted: clients
\* is written only after the dial and the key exchange, so a second call
\* finds no entry and dials again.
C1_OneDialPerAddress ==
    [][\A a \in Addrs : (\E c \in Slots : DialInFlight(c, a)) => ~Dials(a)]_vars

\* C10: in one bootstrap() run no peer is sent FindNodeRequest more than
\* once.  Refuted: visited is filled from the seed frontier only, so an
\* identity returned twice is queued twice.
C10_NoPeerQueriedTwice == \A k \in BootKeys : queried[k] <= 1

\* The step is a call of connect, listen, push or shutdown.
ApiCall ==
    \/ \E a \in Addrs : ConnectCall(a)
    \/ ListenCall
    \/ \E req \in Requests : PushCall(req)
    \/ ShutdownCall

C2_NoEffect ==
    /\ UNCHANGED <<conns, servers, clients, services, table>>
    /\ UNCHANGED <<sk, srv, shutdown, sdPc, sdWait>>

\* C2: once the shutdown flag is set, every call of connect, listen, push
\* or shutdown fails with the error and leaves conns, servers, clients,
\* services and table (and every socket and listener) as they were.
C2_CallsAfterShutdownFail == [][(shutdown /\ ApiCall) => C2_NoEffect]_vars

\* The node is shut down while a connection, a listener and a client entry
\* are still tracked: what a call made now could disturb.
C2_Witness ==
    /\ shutdown /\ sdPc = "waiting"
    /\ conns # {} /\ servers # {} /\ DOMAIN clients # {}

\* Every connection and listener shutdown() waits for has closed.
SnapshotClosed ==
    /\ \A c \in Slots : sk[c].awaited => sk[c].sock = "closed"
    /\ \A s \in ServerIds : srv[s].st # "closing"

\* The step is shutdown() on a node that is not shut down; it ends every
\* connection of conns and closes every listener of servers.
C3_ClosesAll ==
    (~shutdown /\ shutdown') =>
        /\ \A c \in conns : sk'[c].localEnd /\ sk'[c].awaited
        /\ \A s \in servers : srv'[s].st = "closing"
        /\ sdPc' = "waiting"

\* C3: shutdown() ends every connection of conns and closes every listener
\* of servers; it has returned only when each of them has closed; and once
\* all of them have closed it returns.  Refuted: a socket that failed stays
\* in conns (its close listener was rejected by 'error'), and shutdown()
\* waits for a 'close' that was emitted long ago; a socket that fails
\* during the wait makes shutdown() throw.
C3_ShutdownWaits ==
    /\ [][C3_ClosesAll]_vars
    /\ [](sdPc = "returned" => SnapshotClosed)
    /\ ((sdPc = "waiting" /\ SnapshotClosed) ~> (sdPc = "returned"))

\* The step moves connection c while its read loop runs and leaves the
\* node's collections of sockets alone: what every handling of a frame on c
\* does.
FrameStep(c) ==
    /\ sk[c].readPc = "running"
    /\ sk'[c] # sk[c]
    /\ UNCHANGED <<conns, clients, servers, srv, shutdown, sdPc, sdWait>>

\* The step handles the Handshake packet pkt on connection c, as a request
\* (read loop) or as the response awaited by connect().
HandlesHandshake(c, pkt) == HandleHandshake(c, pkt) \/ HandshakeResponse(c, pkt)

\* The step ends connection c (sock.end()) and takes nothing from a packet.
C4_Rejected(c) ==
    /\ sk'[c].localEnd
    /\ sk'[c].id = sk[c].id /\ sk'[c].psvcs = sk[c].psvcs
    /\ UNCHANGED <<table, services>>

\* C4: a Handshake packet with an identity and a signature that does not
\* verify against it ends the connection (sock.end()) and changes neither
\* the routing table nor the service registry.  Stated by contraposition:
\* a step on a connection with any other outcome is not the handling of
\* such a packet.
C4_BadSignatureRejected ==
    [][\A c \in Slots :
          (FrameStep(c) /\ ~C4_Rejected(c)) =>
          \A pkt \in HandshakePackets :
              (pkt.id # NoId /\ pkt.signature # NoSig /\ ~Genuine(pkt))
              => ~HandlesHandshake(c, pkt)]_vars

\* A dialled and an accepted connection have each been ended for a bad
\* signature on the first Handshake packet they received.
C4_Witness ==
    /\ \E c \in Slots : /\ sk[c].dir = "out" /\ sk[c].pc = "failed"
                          /\ sk[c].sock = "open"
                          /\ sk[c].handshaked /\ sk[c].localEnd
    /\ \E c \in Slots : /\ sk[c].dir = "in" /\ sk[c].handshaked
                          /\ sk[c].acceptCleanup.st = "none"
                          /\ sk[c].readPc = "stopped" /\ sk[c].localEnd

\* C5: a Handshake packet without identity never changes the routing
\* table, and an identity enters the routing table only in a step that
\* handles a Handshake packet naming it with a genuine signature.
C5_TableOnlyVerified ==
    [][/\ \A c \in Slots :
            (FrameStep(c) /\ table' # table) =>
            \A pkt \in HandshakePackets :
                pkt.id = NoId => ~HandlesHandshake(c, pkt)
       /\ \A k \in table' \ table :
            \E c \in Slots, pkt \in HandshakePackets :
                /\ HandlesHandshake(c, pkt)
                /\ pkt.id = k /\ Genuine(pkt)
                /\ sk'[c].id = k /\ sk'[c].idVerified]_vars

\* An anonymous peer and a verified peer are both registered; only the
\* verified one is in the routing table.
C5_Witness ==
    /\ \E c \in Slots : /\ sk[c].handshaked /\ sk[c].id = NoId
                          /\ InRegistry(services, c)
    /\ \E c \in Slots : sk[c].id \in table /\ sk[c].idVerified
    /\ \A k \in table : \E c \in Slots : sk[c].id = k

\* The step stops the read loop of connection c and ends the connection;
\* it takes nothing from a packet and writes no reply.
C6_Fatal(c) ==
    /\ sk'[c].readPc = "stopped" /\ sk'[c].localEnd
    /\ sk'[c].replies = sk[c].replies
    /\ sk'[c].psvcs = sk[c].psvcs /\ sk'[c].id = sk[c].id
    /\ UNCHANGED <<table, services>>

\* C6: a Handshake frame on a connection whose provider is already
\* handshaked stops the read loop and ends the connection; no table or
\* registry update and no reply come of it.  Stated by contraposition: a
\* step on a handshaked connection with any other outcome is not the
\* handling of a Handshake frame.
C6_SecondHandshakeFatal ==
    [][\A c \in Slots :
          (sk[c].handshaked /\ FrameStep(c) /\ ~C6_Fatal(c)) =>
          \A pkt \in HandshakePackets : ~HandleHandshake(c, pkt)]_vars

\* The read loop of a connection that had completed its Handshake was
\* stopped by a frame (the socket has not seen 'end'), on an accepted and
\* on a dialled connection.
C6_Witness ==
    /\ \E c \in Slots : /\ sk[c].dir = "in" /\ sk[c].acceptCleanup.st # "none"
                          /\ sk[c].readPc = "stopped" /\ ~sk[c].ended
    /\ \E c \in Slots : /\ sk[c].dir = "out" /\ sk[c].pc = "resolved"
                          /\ sk[c].readPc = "stopped" /\ ~sk[c].ended

\* The step dials on slot n for the reconnect closure of connection c.
ReconnectDials(c, n) ==
    /\ sk[n].sock = "unused"
    /\ sk'[n].sock = "connecting" /\ sk'[n].caller = c

\* While a reconnect closure is alive its attempts and what is left of its
\* budget add up to the budget.
C7_Budget ==
    \A c \in Slots :
        sk[c].rcPc \in {"timer", "attempt"} =>
            /\ sk[c].count \in 0..ReconnectBudget
            /\ sk[c].attempts + sk[c].count = ReconnectBudget

\* An attempt is counted, and none follows the last of the budget: the
\* timer that fires then ends the closure.
C7_Step ==
    \A c \in Slots :
        /\ \A n \in Slots :
              ReconnectDials(c, n) =>
                  /\ sk[c].rcPc = "timer" /\ sk[c].attempts < ReconnectBudget
                  /\ sk'[c].attempts = sk[c].attempts + 1
        /\ (sk[c].rcPc = "timer" /\ sk[c].attempts = ReconnectBudget) =>
              /\ sk'[c].rcPc \in {"timer", "gaveUp", "done", "none"}
              /\ sk'[c].attempts <= ReconnectBudget
              /\ \A n \in Slots : ~ReconnectDials(c, n)

\* C7: after a connection the node dialled has ended, its reconnect closure
\* makes at most 8 attempts, and after the 8th has failed it gives up
\* and dials no more.  (The delay between attempts is not modelled.)
C7_AtMostEightAttempts == []C7_Budget /\ [][C7_Step]_vars

\* Eight attempts have failed and the timer of the closure is pending.
C7_Witness ==
    \E c \in Slots : /\ sk[c].rcPc = "timer" /\ sk[c].attempts = ReconnectBudget
                      /\ sk[c].count = 0 /\ ~shutdown

\* An accepted connection has no reconnect closure.
C8_NoClosureOnAccepted ==
    \A c \in Slots : sk[c].dir = "in" => sk[c].rcPc = "none"

\* A dial happens on a node that is not shut down; one made for a reconnect
\* closure is made for a connection the node dialled, on its timer.
C8_Step ==
    \A n \in Slots :
        (sk[n].sock = "unused" /\ sk'[n].sock = "connecting") =>
            /\ ~shutdown
            /\ \A c \in Slots :
                  sk'[n].caller = c =>
                      sk[c].dir = "out" /\ sk[c].rcPc = "timer"

\* C8: the end of an accepted connection never leads to a connect, and no
\* reconnect attempt dials once the shutdown flag is set.
C8_ReconnectOnlyDialledAndUp == []C8_NoClosureOnAccepted /\ [][C8_Step]_vars

\* The node is shut down with a reconnect timer pending, and an accepted
\* connection that completed its Handshake has ended.
C8_Witness ==
    /\ shutdown
    /\ \E c \in Slots : sk[c].dir = "out" /\ sk[c].rcPc = "timer"
    /\ \E c \in Slots : /\ sk[c].dir = "in" /\ sk[c].ended
                          /\ sk[c].acceptCleanup.st = "done"

\* C9: a connection that completed the Handshake exchange and has gone is
\* in no service set, and its identity is not in the routing table unless
\* another connection of the same identity lives.  Refuted: the cleanup
\* closure starts waiting for 'end' in a setImmediate callback; an 'end'
\* that comes first is missed and the closure never runs.
C9_CleanedUpAfterClose ==
    \A c \in Slots :
        (sk[c].sock = "closed" /\ sk[c].ended /\ sk[c].handshaked) =>
            /\ ~InRegistry(services, c)
            /\ sk[c].id \in table =>
                  \E d \in Slots \ {c} : sk[d].id = sk[c].id /\ sk[d].sock = "open"


-----------------------------------------------------------------------------
(***************************************************************************)
(* Bootstrap: termination and failed queries                               *)
(***************************************************************************)
\* C11: bootstrap() terminates: when every FindNode query of a finite set
\* of peers completes or fails, the frontier eventually becomes empty and
\* bootstrap() returns.  Refuted: peers learned from a response are never
\* added to visited, so two peers that name each other are queried in turn
\* for ever.
C11_BootstrapTerminates == (bPc = "round") ~> (bPc = "done")

\* A query of the round has failed while the other queries go on.
FailureStep(i) ==
    /\ bPc = "round" /\ i \in DOMAIN pending
    /\ pending[i] \in {"connecting", "requested"}
    /\ pending'[i] = "failed"

\* The failure touches nothing but the failed query.
FailureSwallowed(i) ==
    /\ bPc' = "round"
    /\ \A j \in DOMAIN pending \ {i} : pending'[j] = pending[j]
    /\ UNCHANGED <<visited, queue, next, closest>>

\* C12: a connection or request failure for a peer queried in a bootstrap
\* round does not make bootstrap() fail: bootstrap() never throws, the
\* failure leaves the other queries of the round as they are, so they are
\* still sent and answered, and the round settles and is left with the
\* peers the other queries have found.
C12_FailuresSwallowed ==
    /\ [](bPc # "threw")
    /\ [][\A i \in 1..MaxQueue : FailureStep(i) => FailureSwallowed(i)]_vars
    /\ [][(bPc = "round" /\ bPc' # "round") => (RoundSettled /\ bPc' = "done")]_vars
    /\ [][(bPc = "round" /\ queue' # queue) => (RoundSettled /\ queue' = next)]_vars
    /\ [](bPc = "round" => <>RoundSettled)

\* A round in which one query failed and a later one was still sent,
\* answered, and has put a new peer on the next frontier.
C12_Witness ==
    /\ bPc = "round"
    /\ \E i, j \in DOMAIN pending :
          i < j /\ pending[i] = "failed" /\ pending[j] = "done"
    /\ next # <<>>


-----------------------------------------------------------------------------
(***************************************************************************)
(* Two nodes with keys: the routing tables after connect()                 *)
(***************************************************************************)
\* connect() on slot c resolves in this step.
Resolves(c) == sk[c].pc = "awaitResponse" /\ sk'[c].pc = "resolved"

\* A writes its Handshake reply in this step.
Replies == ~peer.handshaked /\ peer'.handshaked /\ peer'.pc = "serving"

BothKeyed == peer.keysA /\ peer.keysB

-----------------------------------------------------------------------------
(***************************************************************************)
(* The read loop, frame by frame                                           *)
(***************************************************************************)
\* The step dispatches a frame.
Dispatches == rd'.last # rd.last

\* C14: on one connection frames are dispatched in strict receipt order:
\* every dispatch takes the frame received next after the one dispatched
\* last, and only when no _handle is still under way, its write included;
\* the routing table and the registry change only within the dispatch step
\* of a frame (or on 'end'), so the effects of a frame are complete before
\* the next frame is dispatched; no step of an application handler changes
\* them or moves the read loop.
C14_StrictReceiptOrder ==
    /\ [][Dispatches => (rd.pc = "next" /\ rd'.last = rd.last + 1)]_vars
    /\ [][(table' # table \/ services' # services) =>
             (Dispatches \/ (~rd.ended /\ rd'.ended))]_vars
    /\ [][(rd'.jobs # rd.jobs /\ ~Dispatches) =>
             (rd'.pc = rd.pc /\ rd'.inbox = rd.inbox /\ rd'.last = rd.last)]_vars

\* The handler started for a ServiceRequest is still running and has not
\* answered, and a later frame of the same connection, a Data frame of that
\* stream, has been dispatched and delivered.
C14_Witness ==
    \E i \in StreamIds :
        /\ rd.jobs[i].st = "running" /\ ~rd.jobs[i].ended
        /\ rd.cur.op = "Data" /\ rd.cur.id = i /\ rd.chunks[i] = 1
        /\ rd.last = 3 /\ rd.handshaked

\* C15: a ServiceRequest none of whose service names the application
\* handles is answered with a ServiceResponse for the same stream id with
\* handled = false.  Refuted: the test is `service in this.handlers` on a
\* plain object, which also holds for inherited names such as "toString";
\* such a request starts Object.prototype.toString as its handler and is
\* never answered.
C15_NoHandlerRejected ==
    \A i \in rd.unserved : Response(i, FALSE, FALSE) \in rd.out

\* The dispatched frame is a ServiceResponse or Data frame for a stream id
\* that is not registered.
UnknownStreamFrame ==
    /\ Dispatches
    /\ rd'.cur.op \in {"ServiceResponse", "Data"}
    /\ rd'.cur.id \notin rd.streams

\* C18: a ServiceResponse or Data frame whose stream id is not registered,
\* or has ended, is fatal: nothing is delivered to any stream, the read
\* loop stops and sock.end() is called.
C18_UnknownStreamFatal ==
    [][UnknownStreamFrame =>
          /\ rd'.pc = "stopped" /\ rd'.localEnd
          /\ rd'.pulled = rd.pulled /\ rd'.chunks = rd.chunks
          /\ rd'.streams = rd.streams]_vars

\* A stream was registered, was ended by a response with handled = false,
\* and a Data frame for it has stopped the read loop.
C18_Witness ==
    /\ rd.fatal /\ rd.pc = "stopped" /\ rd.localEnd
    /\ rd.cur.op = "Data"
    /\ rd.cur.id \in rd.pulled /\ rd.cur.id \notin rd.streams
    /\ rd.chunks[rd.cur.id] = 0

\* The step is the failure of the application handler of stream i.
HandlerFails(i) == rd.jobs[i].st = "running" /\ rd'.jobs[i].st = "failed"

\* C19 as stated: the remote caller receives an error response for the
\* stream of a handler that threw.  Refuted for a handler that throws
\* after it has ended its response: the catch writes nothing then.
C19_ErrorAlwaysAnswered ==
    \A i \in StreamIds :
        (rd.jobs[i].st = "failed" /\ ~rd.localEnd) =>
            Response(i, TRUE, TRUE) \in rd.out

\* C19, amended: an error of an application handler never stops the read
\* loop and never ends the connection, frames received later are still
\* dispatched, and the remote caller is sent an error response for that
\* stream unless the handler had already ended its response.
C19_HandlerErrorCaught ==
    /\ [][\A i \in StreamIds : HandlerFails(i) =>
             /\ rd'.pc = rd.pc /\ rd'.localEnd = rd.localEnd
             /\ rd'.fatal = rd.fatal /\ rd'.inbox = rd.inbox
             /\ (~rd.jobs[i].ended /\ ~rd.localEnd) =>
                    Response(i, TRUE, TRUE) \in rd'.out
             /\ rd.jobs[i].ended => rd'.out = rd.out]_vars
    /\ [](rd.fatal => rd.pc = "stopped")

\* A handler threw and was answered for with an error response; the loop
\* went on and has dispatched a frame received after that.
C19_Witness ==
    \E i \in StreamIds :
        /\ rd.jobs[i].st = "failed" /\ Response(i, TRUE, TRUE) \in rd.out
        /\ rd.thrownAt > 0 /\ rd.last > rd.thrownAt
        /\ ~rd.fatal /\ ~rd.localEnd


-----------------------------------------------------------------------------
(***************************************************************************)
(* The service registry                                                    *)
(***************************************************************************)
\* C20: in every reachable state the service registry maps no service name
\* to an empty provider set, and every provider in the set of service s has
\* s in its own services and has handshaked = true.
C20_RegistryWellFormed ==
    \A s \in DOMAIN services :
        /\ services[s] # <<>>
        /\ \A p \in SeqToSet(services[s]) :
              /\ sk[p].provider
              /\ s \in sk[p].psvcs
              /\ sk[p].handshaked

\* A provider has left the registry through its cleanup closure, which
\* removed the entry of its service, while it still lists the service as
\* its own; and another provider is registered.
C20_Witness ==
    /\ \E c \in Slots : /\ sk[c].dialCleanup.st = "done"
                        /\ "x" \in sk[c].dialCleanup.svcs
                        /\ "x" \in sk[c].psvcs
                        /\ ~InRegistry(services, c)
    /\ \E d \in Slots : InRegistry(services, d) /\ sk[d].dir = "in"


-----------------------------------------------------------------------------
(***************************************************************************)
(* push and providersFor                                                   *)
(***************************************************************************)
\* The Providers the registry lists under a service of the request.
Advertising(req) ==
    {p \in QProviders :
        \E s \in SeqToSet(req) : s \in DOMAIN services /\ p \in SeqToSet(services[s])}

\* Position of the first service of the request that has a registry entry.
FirstListed(req) ==
    CHOOSE i \in DOMAIN req :
        /\ req[i] \in DOMAIN services
        /\ \A j \in DOMAIN req : req[j] \in DOMAIN services => i <= j

\* C16: push forwards the request to exactly one provider, the first in
\* the order in which the registry is iterated for the request (the
\* requested services in the order given, the providers of a service in
\* the order they registered), which advertises a requested service, and
\* comes to that provider's outcome; it fails with the no-provider error
\* if and only if no provider in the registry advertises a requested
\* service.
C16_PushFirstProvider ==
    (qry.op = "push" /\ qry.outcome # "shutDown") =>
        /\ (qry.outcome = "noNodes") <=> (Advertising(qry.req) = {})
        /\ (qry.outcome = "noNodes") => qry.sent = <<>>
        /\ (qry.outcome # "noNodes") =>
              /\ Len(qry.sent) = 1
              /\ qry.sent[1] \in Advertising(qry.req)
              /\ qry.psvcs[qry.sent[1]] \cap SeqToSet(qry.req) # {}
              /\ qry.sent[1] = services[qry.req[FirstListed(qry.req)]][1]
              /\ qry.outcome \in PushOutcomes

\* Two providers advertise requested services, the one chosen is listed
\* under the second service of the registry's own record only, it failed,
\* and the request was forwarded to it alone.
C16_Witness ==
    /\ qry.op = "push" /\ qry.outcome = "error" /\ Len(qry.sent) = 1
    /\ Cardinality(Advertising(qry.req)) = 2
    /\ qry.req = <<"y", "x">>
    /\ qry.psvcs[qry.sent[1]] = {"y"}
    /\ "x" \in DOMAIN services /\ services["x"][1] # qry.sent[1]

\* C17: providersFor(services) returns the providers advertising any of the
\* given services, deduplicated by public key: no two providers of the
\* result have the same public key, and every provider registered under a
\* given service is represented in the result, by itself or by a provider
\* of the same public key.  Refuted: a provider without identity
\* is left out of the result.
C17_ProvidersForComplete ==
    qry.op = "providersFor" =>
        /\ \A i, j \in DOMAIN qry.found :
               i # j => qry.ids[qry.found[i]] # qry.ids[qry.found[j]]
        /\ \A p \in Advertising(qry.req) :
               \E i \in DOMAIN qry.found :
                   \/ qry.found[i] = p
                   \/ qry.ids[p] # NoId /\ qry.ids[qry.found[i]] = qry.ids[p]

\* C21: a FindNodeRequest is answered in any handshake state of the
\* connection, also before any Handshake: the reply is written with the
\* request's sequence number and lists the entries of the routing table
\* closest to the requested target (at most the table's capacity, nearest
\* first, none left out that is nearer than one listed), and handling the
\* frame changes neither the routing table, the registry nor the provider's
\* handshaked flag.
ClosestEntries(list, t, target) ==
    /\ SeqToSet(list) \subseteq t
    /\ Len(list) = (IF Cardinality(t) < TableCap THEN Cardinality(t) ELSE TableCap)
    /\ \A i, j \in DOMAIN list :
          i < j => Distance(list[i], target) < Distance(list[j], target)
    /\ \A k \in t \ SeqToSet(list) :
          \A i \in DOMAIN list : Distance(list[i], target) <= Distance(k, target)

C21_FindNodeAnswered ==
    [][(Dispatches /\ rd'.cur.op = "FindNodeRequest") =>
          /\ rd'.pc = "write" /\ ~rd'.fatal
          /\ rd'.reply.seq = rd'.cur.seq
          /\ ClosestEntries(rd'.reply.closest, table, rd'.cur.target)
          /\ table' = table /\ services' = services
          /\ rd'.handshaked = rd.handshaked /\ rd'.id = rd.id]_vars

\* A FindNodeRequest for p2 with seq 2 was answered on a connection that
\* has not handshaked: the two entries nearest to p2 of a table of three.
C21_Witness ==
    /\ ~rd.handshaked /\ rd.cur.op = "FindNodeRequest" /\ rd.pc = "next"
    /\ rd.reply = FindNodeResponse(2, <<"p2", "p3">>)
    /\ table = {"p1", "p2", "p3"}

\* connect(a) called now passes its shutdown check, finds clients[a] and
\* returns it at once, without waiting for anything.
ReturnsAtOnce(a) == ~shutdown /\ a \in DOMAIN clients

\* C22: connect(addr) resolves only with a provider whose Handshake
\* exchange has completed (handshaked = true): a call that dialled resolves
\* after the exchange, and a call that finds an entry of clients, also one
\* made while another connect to the address is still handshaking, gets a
\* handshaked provider.  Refuted: the entry is put into clients before the
\* Handshake request is sent.
C22_ResolvesHandshaked ==
    /\ \A c \in Slots :
          (sk[c].pc = "resolved" /\ sk[c].provider) => sk[c].handshaked
    /\ \A a \in Addrs : ReturnsAtOnce(a) => sk[clients[a]].handshaked

\* C25: connect(addr) never returns a provider whose socket has already
\* ended: neither a call of the user nor the attempt of a reconnect closure
\* whose timer is running finds in clients an entry whose socket has
\* emitted 'end'.  Refuted: the entry stays in clients from 'end' until
\* 'close'.
C25_NeverReturnsEnded ==
    /\ \A a \in Addrs : ReturnsAtOnce(a) => ~sk[clients[a]].ended
    /\ \A c \in Slots :
          (sk[c].rcPc = "timer" /\ ~shutdown /\ ~GiveUp(c)
             /\ sk[c].addr \in DOMAIN clients)
          => ~sk[clients[sk[c].addr]].ended

\* Connection c is live and has completed its Handshake with an identity
\* whose signature verified.
LiveWithIdentity(c) ==
    /\ sk[c].sock = "open" /\ ~sk[c].ended /\ ~sk[c].localEnd
    /\ sk[c].handshaked /\ sk[c].id # NoId

\* C23: whenever some live connection has completed its Handshake with a
\* verified identity of public key K, the routing table holds K; the end
\* of one connection to a peer does not remove K while another handshaked
\* connection to the same peer is live.  Refuted: each cleanup closure
\* deletes the key of its own provider, whoever else presents that key.
C23_LiveIdentityInTable ==
    \A c \in Slots : LiveWithIdentity(c) => sk[c].id \in table

\* C24: once shutdown() has returned the node has no open connection and
\* no open listener, whatever was under way when it was called.  Refuted:
\* shutdown() ends what conns and servers hold at the call; a connect()
\* that is still dialling, or a listen() that is still binding, has passed
\* its shutdown check and adds its socket or listener afterwards.
C24_NothingOpenAfterShutdown ==
    sdPc = "returned" =>
        /\ \A c \in Slots : sk[c].sock # "open"
        /\ \A s \in ServerIds : srv[s].st # "listening"
        /\ conns = {} /\ servers = {}

=============================================================================
